---- MODULE Spec2Model ----
(***************************************************************************)
(* The in-process PTY session manager (package pty): Session with its      *)
(* replay buffer and subscriber fan-out, and Manager with Start / Get /    *)
(* Stop.  Every goroutine of the package is a process of the model: the    *)
(* reader and the exit monitor spawned by Manager.Start, the callers of    *)
(* Start and Stop, and the clients that call Replay / Subscribe / unsub    *)
(* and receive from the subscriber channel.  One action is one critical    *)
(* section (or one blocking call) of the source.                           *)
(*                                                                         *)
(* Sizes are scaled: the source's 100 KiB replay buffer, 32 KiB read       *)
(* buffer and 256-slot subscriber channel are a few bytes / slots here.    *)
(*                                                                         *)
(* Around the package: main's startup and shutdown, the orchestrator's     *)
(* create handler, the workflow runner, the HTTP input handler, a          *)
(* lock-level view of the package's mutexes, and the reconnect logic of    *)
(* the browser's Terminal and IdleMonitor components (with the source's    *)
(* delays in ms).                                                          *)
(***************************************************************************)
EXTENDS Naturals, Sequences, FiniteSets

\* ---- scaled sizes of the source --------------------------------------
replayBufSize == 2    \* const replayBufSize = 100 * 1024, in bytes
readBufSize == 2      \* buf := make([]byte, 32*1024), in bytes
subChanCap == 1       \* make(chan []byte, 256), in payloads

\* ---- bounds of the exploration ---------------------------------------
MaxSessions == 2      \* calls of Manager.Start
MaxSubs == 2          \* clients (each subscribes at most once)
MaxStopCalls == 2     \* calls of Manager.Stop
MaxEvents == 4        \* Stop, Replay and Subscribe calls and non-empty reads together
MaxBoots == 2         \* starts of the server process

Ids == {"s1", "s2"}
S == 1..MaxSessions
Chans == 1..MaxSubs
StopCallers == 1..MaxStopCalls

VARIABLES
    sessions,     \* Manager.sessions: id -> session object (0: no entry)
    spc,          \* per Start call: "none" | "failed" | "register" | "done"
    sessID,       \* Session.ID
    proc,         \* Session.Cmd's process: "none" | "running" | "exited" | "reaped"
    signals,      \* signals sent to the process through Cmd.Process.Signal
    ptyClosed,    \* Session.PTY has been closed
    doneClosed,   \* number of close(sess.Done) executed
    stopped,      \* Session.stopped
    replayBuf,    \* Session.replayBuf
    subscribers,  \* Session.subscribers (set of channels)
    rpc,          \* reader goroutine: "none" | "read" | "append" | "broadcast" | "teardown" | "end"
    rerr,         \* reader: err of the last Read was non-nil
    mpc,          \* exit monitor goroutine: "none" | "wait" | "setStopped" | "closeDone" | "end"
    emitted,      \* per session, the chunks Read has returned, in order
    chanSess,     \* per channel: the session it was made for (0: not made)
    queue,        \* per channel: buffered payloads
    closed,       \* per channel: number of close(ch) executed
    panicked,     \* a send on a closed channel or a second close happened
    cpc,          \* per client: "idle" | "replayed" | "subscribed" | "cancelled"
    ctarget,      \* per client: the session handle it holds (0: none)
    snapshot,     \* per client: the bytes its Replay call returned
    recvd,        \* per client: payloads received from its channel, in order
    subInfo,      \* per client: history of the moment Subscribe returned
    overflows,    \* per channel: payloads broadcast while its queue was full
    stpc,         \* per Stop call: "idle" | "locked" | "done"
    stsess,       \* per Stop call: the session taken from the registry
    stret,        \* per Stop call: "none" | "nil" | "notfound"
    events,       \* Stop, Replay and Subscribe calls and non-empty reads so far
    winsize,      \* per session: the window size set on its PTY (0: the size at Start)
    written,      \* per session: Write calls that reached the PTY's write side
    lastCall,     \* the last Resize / input request: [op, id, ret]
    server,       \* the server process: "down" | "cleaned" | "serving" | "stopall"
    boots,        \* number of times main has been started
    cleanups,     \* cleanupStaleSessions runs of this process: <<ok, ...>>
    early,        \* a request was accepted before cleanupStaleSessions had run
    rows,         \* table sessions: id -> status ("none": no row)
    orows,        \* table orchestrator_sessions: id -> status ("none": no row)
    saIds,        \* StopAll: the ids still to be stopped
    sapc,         \* StopAll: "idle" | "locked" (inside Stop, registry entry taken)
    sasess,       \* StopAll: the session the current Stop took from the registry
    before,       \* the sessions that were live when the last shutdown signal arrived
    opc,          \* per HandleCreate request: "idle" | "selected" | "start" | "inserted" | "done" | "dead"
    oexisting,    \* per HandleCreate request: the running row its SELECT found ("" : none)
    oret,         \* per HandleCreate request: the HTTP status it answered ("none": not yet)
    omon,         \* per HandleCreate request: its exit goroutine: "none" | "wait" | "end" | "dead"
    lockop,       \* per task of the lock-level view: the function it runs ("none": not called yet)
    lockpc,       \* per task of the lock-level view: the lock operations it has executed
    holders,      \* per mutex: the tasks that hold it (several only for read locks)
    wfpc,         \* workflow run: "idle" | "done" (refused) | "spawned" | "step" | "write" | "end"
    wfjson,       \* workflow run: the steps column of the row, as stored
    wfsteps,      \* workflow run: the steps executeWorkflowSteps parsed
    wfsess,       \* workflow run: the session a send_input step got from the manager
    wfret,        \* workflow run: the HTTP status HandleRun answered ("none": not yet)
    wflog,        \* workflow run: the steps executed so far, with their outcome
    connState,    \* Terminal: "connecting" | "connected" | "reconnecting" | "ended"
    attempts,     \* Terminal: the attempts state
    reconnectDelay, \* Terminal: reconnectDelay.current, in ms
    neverOpened,  \* Terminal: neverOpened.current
    wsConnecting, \* Terminal: its WebSockets that are connecting (opened = false)
    wsOpen,       \* Terminal: its WebSockets that are open (opened = true)
    reconnectTimer, \* Terminal: the wait of the pending timer in reconnectTimer.current (0: none)
    strayTimers,  \* Terminal: pending reconnect timers that reconnectTimer.current no longer names
    restPending,  \* Terminal: checkSessionAlive calls in flight
    closes,       \* Terminal: abnormal closes so far
    manuals,      \* Terminal: clicks on the reconnect button so far
    nth,          \* Terminal: reconnects scheduled since the last open or click
    autoAfterMax, \* Terminal: a timer connected after attempts reached the maximum, no click since
    restDead,     \* Terminal: checkSessionAlive has reported the session as not running
    monitors,     \* IdleMonitor: per session, the monitor in monitors.current ("none" or its socket)
    monDelay,     \* IdleMonitor: per session, reconnectDelay of the monitor object made last, in ms
    monEnded,     \* IdleMonitor: per session, ended of the monitor object made last
    monTimer,     \* IdleMonitor: per session, the wait of the pending reopen timer (0: none)
    monCloses,    \* IdleMonitor: per session, abnormal closes in a row so far
    idleSessions  \* IdleMonitor: the idleSessions state

vars == <<sessions, spc, sessID, proc, signals, ptyClosed, doneClosed, stopped,
          replayBuf, subscribers, rpc, rerr, mpc, emitted, chanSess, queue,
          closed, panicked, cpc, ctarget, snapshot, recvd, subInfo, overflows,
          stpc, stsess, stret, events, winsize, written, lastCall,
          server, boots, cleanups, early, rows, orows, saIds, sapc, sasess, before,
          opc, oexisting, oret, omon, lockop, lockpc, holders,
          wfpc, wfjson, wfsteps, wfsess, wfret, wflog,
          connState, attempts, reconnectDelay, neverOpened, wsConnecting, wsOpen,
          reconnectTimer, strayTimers, restPending, closes, manuals, nth, autoAfterMax, restDead,
          monitors, monDelay, monEnded, monTimer, monCloses, idleSessions>>

mgrVars == <<sessions, spc, sessID>>
procVars == <<proc, signals, ptyClosed, doneClosed, stopped, mpc>>
readerVars == <<replayBuf, rpc, rerr, emitted>>
chanVars == <<subscribers, chanSess, queue, closed, panicked, overflows>>
clientVars == <<cpc, ctarget, snapshot, recvd, subInfo>>
stopVars == <<stpc, stsess, stret>>
apiVars == <<winsize, written, lastCall>>
bootVars == <<server, boots, cleanups, early, before>>
dbVars == <<rows, orows>>
stopAllVars == <<saIds, sapc, sasess>>
orchVars == <<opc, oexisting, oret, omon>>
srvVars == <<bootVars, dbVars, stopAllVars, orchVars>>
lockVars == <<lockop, lockpc, holders>>
wfVars == <<wfpc, wfjson, wfsteps, wfsess, wfret, wflog>>
termVars == <<connState, attempts, reconnectDelay, neverOpened, wsConnecting, wsOpen,
              reconnectTimer, strayTimers, restPending, closes, manuals, nth, autoAfterMax, restDead>>
idleVars == <<monitors, monDelay, monEnded, monTimer, monCloses, idleSessions>>
sideVars == <<lockVars, wfVars, termVars, idleVars>>
outerVars == <<apiVars, srvVars, sideVars>>
coreVars == <<mgrVars, procVars, readerVars, chanVars, clientVars, stopVars, events>>
nonLockVars == <<coreVars, apiVars, srvVars, wfVars, termVars, idleVars>>
nonTermVars == <<coreVars, apiVars, srvVars, lockVars, wfVars, idleVars>>
nonIdleVars == <<coreVars, apiVars, srvVars, lockVars, wfVars, termVars>>

\* Status values of a durable row; "none" stands for the absence of the row.
RowStatus == {"none", "starting", "running", "stopped", "error"}

\* The requests to the orchestrator's create handler and the fresh id
\* (uuid) each of them draws.
OrchIds == <<"s1", "s2">>
Creates == 1..Len(OrchIds)
OrchId(o) == OrchIds[o]

\* ---- helpers ----------------------------------------------------------
Min(a, b) == IF a < b THEN a ELSE b

RECURSIVE Flat(_)
Flat(ss) == IF ss = <<>> THEN <<>> ELSE Head(ss) \o Flat(Tail(ss))

LastN(q, n) == SubSeq(q, Len(q) - n + 1, Len(q))

Range(q) == {q[i] : i \in 1..Len(q)}

IsPrefix(p, q) == Len(p) <= Len(q) /\ SubSeq(q, 1, Len(p)) = p

\* The child of session s prints a running counter: byte p of its output.
ByteAt(s, p) == ((s - 1) * 64 + p) % 256

\* A payload is the slice `data` the reader allocated for one Read: it is
\* the idx-th chunk of session sid.
Payload(s, k) == [sid |-> s, idx |-> k]
PayloadBytes(p) == emitted[p.sid][p.idx]
RECURSIVE PayloadsBytes(_)
PayloadsBytes(ps) ==
    IF ps = <<>> THEN <<>> ELSE PayloadBytes(Head(ps)) \o PayloadsBytes(Tail(ps))

\* ---- Session ----------------------------------------------------------
\* A truncation that keeps the oldest bytes instead of the newest.
appendReplay_keepOldest(buf, data) ==
    LET all == buf \o data
    IN IF Len(all) > replayBufSize THEN SubSeq(all, 1, replayBufSize) ELSE all

appendReplay(buf, data) ==
    LET all == buf \o data
    IN IF Len(all) > replayBufSize THEN LastN(all, replayBufSize) ELSE all

Replay(s) == replayBuf[s]

Get(id) == sessions[id]

\* Manager.ListActive(): the ids that have an entry in m.sessions.
ListActive == {id \in Ids : sessions[id] # 0}

\* ---- lock-level view of package pty ----------------------------------
\* Every function of the package as the sequence of mutex operations it
\* executes, for a Manager with one Session.  Manager.mu is the RWMutex
\* "m.mu"; Session.mu, Session.replayMu (the ring) and Session.subMu (the
\* subscriber map) are plain mutexes.
ReaderChunks == 2     \* iterations of the reader loop with n > 0
MaxCallers == 2       \* concurrent callers of the facade, one call each

Mutexes == {"m.mu", "mu", "replayMu", "subMu"}

Op(k, m) == [op |-> k, mu |-> m]

appendReplayLocks == <<Op("Lock", "replayMu"), Op("Unlock", "replayMu")>>

ReplayLocks == <<Op("Lock", "replayMu"), Op("Unlock", "replayMu")>>

\* A broadcast that appends to the ring while it holds the subscriber mutex.
broadcastLocks_ringInside ==
    <<Op("Lock", "subMu"), Op("Lock", "replayMu"), Op("Unlock", "replayMu"), Op("Unlock", "subMu")>>

broadcastLocks == <<Op("Lock", "subMu"), Op("Unlock", "subMu")>>

SubscribeLocks == <<Op("Lock", "subMu"), Op("Unlock", "subMu")>>

\* The cancel closure that Subscribe returns.
unsubLocks == <<Op("Lock", "subMu"), Op("Unlock", "subMu")>>

\* The reader goroutine: per chunk appendReplay then broadcast, and after
\* the loop the teardown of the subscriber map.
teardownLocks == <<Op("Lock", "subMu"), Op("Unlock", "subMu")>>

RECURSIVE readerLoopLocks(_)
readerLoopLocks(n) ==
    IF n = 0 THEN <<>> ELSE appendReplayLocks \o broadcastLocks \o readerLoopLocks(n - 1)

\* The exit monitor goroutine: sets stopped under Session.mu.
monitorLocks == <<Op("Lock", "mu"), Op("Unlock", "mu")>>

\* Manager.Start: the registration of the session.
StartLocks == <<Op("Lock", "m.mu"), Op("Unlock", "m.mu")>>

\* Manager.Get; Manager.Resize calls it and then sets the window size
\* without a lock.
GetLocks == <<Op("RLock", "m.mu"), Op("RUnlock", "m.mu")>>

ListActiveLocks == <<Op("RLock", "m.mu"), Op("RUnlock", "m.mu")>>

\* Manager.Stop of a registered id: the registry under m.mu, which it
\* releases, then the stopped check, the signal and the PTY close under
\* Session.mu.
StopLocks ==
    <<Op("Lock", "m.mu"), Op("Unlock", "m.mu"), Op("Lock", "mu"), Op("Unlock", "mu")>>

\* Manager.Stop of an unknown id returns after the registry lookup.
StopMissingLocks == <<Op("Lock", "m.mu"), Op("Unlock", "m.mu")>>

\* Manager.StopAll: copies the ids under m.mu, releases it, then calls Stop.
StopAllLocks == <<Op("Lock", "m.mu"), Op("Unlock", "m.mu")>> \o StopLocks

\* The functions a caller goroutine may call.
Facade == {"Start", "Stop", "StopMissing", "StopAll", "Resize", "Get", "ListActive",
           "Subscribe", "SubscribeCancel", "Replay"}

\* The goroutines: the reader and the exit monitor that Start spawned, and
\* the concurrent callers of the facade.
Callers == {<<"caller", i>> : i \in 1..MaxCallers}
Tasks == {<<"reader", 0>>, <<"monitor", 0>>} \cup Callers

LockProgram(f) ==
    CASE f = "Start" -> StartLocks
      [] f = "reader" -> readerLoopLocks(ReaderChunks) \o teardownLocks
      [] f = "monitor" -> monitorLocks
      [] f = "Stop" -> StopLocks
      [] f = "StopMissing" -> StopMissingLocks
      [] f = "StopAll" -> StopAllLocks
      [] f = "Resize" -> GetLocks
      [] f = "Get" -> GetLocks
      [] f = "ListActive" -> ListActiveLocks
      [] f = "Subscribe" -> SubscribeLocks
      [] f = "SubscribeCancel" -> SubscribeLocks \o unsubLocks
      [] f = "Replay" -> ReplayLocks
      [] f = "none" -> <<>>

InitLocks ==
    /\ lockop = [t \in Tasks |-> IF t \in Callers THEN "none" ELSE t[1]]
    /\ lockpc = [t \in Tasks |-> 0]
    /\ holders = [m \in Mutexes |-> [writer |-> {}, readers |-> {}]]

\* ---- workflows ---------------------------------------------------------
MaxSteps == 3         \* steps of a workflow

\* workflowStep values: a shell step, the send_input steps with and without
\* their fields, and a step of a type the executor does not know.
WfStep(ty, sid, data) == [type |-> ty, session_id |-> sid, data |-> data]
StepSet == {WfStep("shell", "", ""), WfStep("bogus", "", ""), WfStep("send_input", "", "x"),
            WfStep("send_input", "s1", ""), WfStep("send_input", "s1", "x"),
            WfStep("send_input", "s2", "x")}
Workflows == UNION {[1..n -> StepSet] : n \in 0..MaxSteps}

\* The steps column: text that is a JSON list of steps, or is not.
StepsJSON == {[valid |-> FALSE, steps |-> <<>>]} \cup {[valid |-> TRUE, steps |-> w] : w \in Workflows}

InitWorkflow ==
    /\ wfpc = "idle"
    /\ wfjson = [valid |-> FALSE, steps |-> <<>>]
    /\ wfsteps = <<>>
    /\ wfsess = 0
    /\ wfret = "none"
    /\ wflog = <<>>

\* ---- browser terminal --------------------------------------------------
RECONNECT_DELAY == 1000
MAX_RECONNECT_DELAY == 10000
MAX_RECONNECT_ATTEMPTS == 30

MaxCloses == 31       \* abnormal closes of the terminal's WebSockets
MaxManual == 1        \* clicks on the reconnect button

\* The component after its mount effect: connect(term) has been called.
InitTerminal ==
    /\ connState = "connecting"
    /\ attempts = 0
    /\ reconnectDelay = RECONNECT_DELAY
    /\ neverOpened = 0
    /\ wsConnecting = 1
    /\ wsOpen = 0
    /\ reconnectTimer = 0
    /\ strayTimers = 0
    /\ restPending = 0
    /\ closes = 0
    /\ manuals = 0
    /\ nth = 0
    /\ autoAfterMax = FALSE
    /\ restDead = FALSE

\* ---- idle monitor ------------------------------------------------------
RECONNECT_MS == 3000
MAX_RECONNECT_MS == 30000

MaxMonitorCloses == 6 \* abnormal closes of one session's monitor WebSocket

\* The provider after the first poll listed every session as running: the
\* effect has called openMonitor for each of them.
InitIdleMonitor ==
    /\ monitors = [id \in Ids |-> "ws"]
    /\ monDelay = [id \in Ids |-> RECONNECT_MS]
    /\ monEnded = [id \in Ids |-> FALSE]
    /\ monTimer = [id \in Ids |-> 0]
    /\ monCloses = [id \in Ids |-> 0]
    /\ idleSessions = {}

InitSessions ==
    /\ sessions = [id \in Ids |-> 0]
    /\ spc = [s \in S |-> "none"]
    /\ sessID = [s \in S |-> "s1"]
    /\ proc = [s \in S |-> "none"]
    /\ signals = [s \in S |-> <<>>]
    /\ ptyClosed = [s \in S |-> FALSE]
    /\ doneClosed = [s \in S |-> 0]
    /\ stopped = [s \in S |-> FALSE]
    /\ replayBuf = [s \in S |-> <<>>]
    /\ subscribers = [s \in S |-> {}]
    /\ rpc = [s \in S |-> "none"]
    /\ rerr = [s \in S |-> FALSE]
    /\ mpc = [s \in S |-> "none"]
    /\ emitted = [s \in S |-> <<>>]
    /\ chanSess = [c \in Chans |-> 0]
    /\ queue = [c \in Chans |-> <<>>]
    /\ closed = [c \in Chans |-> 0]
    /\ panicked = FALSE
    /\ cpc = [c \in Chans |-> "idle"]
    /\ ctarget = [c \in Chans |-> 0]
    /\ snapshot = [c \in Chans |-> <<>>]
    /\ recvd = [c \in Chans |-> <<>>]
    /\ subInfo = [c \in Chans |-> [reads |-> 0, bcasts |-> 0, ended |-> FALSE]]
    /\ overflows = [c \in Chans |-> 0]
    /\ stpc = [t \in StopCallers |-> "idle"]
    /\ stsess = [t \in StopCallers |-> 0]
    /\ stret = [t \in StopCallers |-> "none"]
    /\ events = 0
    /\ winsize = [s \in S |-> 0]
    /\ written = [s \in S |-> 0]
    /\ lastCall = [op |-> "none", id |-> "s1", ret |-> "none"]
    /\ saIds = {}
    /\ sapc = "idle"
    /\ sasess = 0
    /\ before = {}
    /\ opc = [o \in Creates |-> "idle"]
    /\ oexisting = [o \in Creates |-> ""]
    /\ oret = [o \in Creates |-> "none"]
    /\ omon = [o \in Creates |-> "none"]
    /\ early = FALSE
    /\ InitLocks
    /\ InitWorkflow
    /\ InitTerminal
    /\ InitIdleMonitor

\* The package in a server that is up: main has cleaned up and serves.
Init ==
    /\ InitSessions
    /\ server = "serving"
    /\ boots = 1
    /\ cleanups = <<TRUE>>
    /\ rows = [id \in Ids |-> "none"]
    /\ orows = [id \in Ids |-> "none"]

\* The server before main runs: no process, and the tables as any earlier
\* run may have left them (its orchestrator ids differ from the fresh ones).
InitBoot ==
    /\ InitSessions
    /\ server = "down"
    /\ boots = 0
    /\ cleanups = <<>>
    /\ rows \in [Ids -> RowStatus]
    /\ orows \in [Ids -> {"none", "running", "stopped"}]
    /\ orows[OrchId(1)] = "none"


\* One more event of the environment, while the budget lasts.
Event == events < MaxEvents /\ events' = events + 1

\* ---- Manager.Start ----------------------------------------------------
\* The s-th call of Start.  pty.StartWithSize fails: Start returns the error.
StartFail(s) ==
    /\ spc[s] = "none"
    /\ \A r \in S : r < s => spc[r] # "none"
    /\ spc' = [spc EXCEPT ![s] = "failed"]
    /\ UNCHANGED <<sessions, sessID, procVars, readerVars, chanVars, clientVars, stopVars>>
    /\ UNCHANGED <<events, outerVars>>

\* pty.StartWithSize succeeds, the Session is built and the reader and the
\* exit monitor goroutines are started; the registration is still to come.
StartSpawn(s, id) ==
    /\ spc[s] = "none"
    /\ \A r \in S : r < s => spc[r] # "none"
    /\ spc' = [spc EXCEPT ![s] = "register"]
    /\ sessID' = [sessID EXCEPT ![s] = id]
    /\ proc' = [proc EXCEPT ![s] = "running"]
    /\ rpc' = [rpc EXCEPT ![s] = "read"]
    /\ mpc' = [mpc EXCEPT ![s] = "wait"]
    /\ UNCHANGED <<sessions, signals, ptyClosed, doneClosed, stopped, replayBuf,
                   rerr, emitted, chanVars, clientVars, stopVars>>
    /\ UNCHANGED <<events, outerVars>>

\* m.mu.Lock(); m.sessions[id] = sess; m.mu.Unlock(); return sess, nil
StartRegister(s) ==
    /\ spc[s] = "register"
    /\ sessions' = [sessions EXCEPT ![sessID[s]] = s]
    /\ spc' = [spc EXCEPT ![s] = "done"]
    /\ UNCHANGED <<sessID, procVars, readerVars, chanVars, clientVars, stopVars>>
    /\ UNCHANGED <<events, outerVars>>

\* ---- the child process ------------------------------------------------
\* The child exits (on its own or because of a signal); it is a zombie
\* until cmd.Wait reaps it.
ChildExit(s) ==
    /\ proc[s] = "running"
    /\ proc' = [proc EXCEPT ![s] = "exited"]
    /\ UNCHANGED <<mgrVars, signals, ptyClosed, doneClosed, stopped, mpc,
                   readerVars, chanVars, clientVars, stopVars>>
    /\ UNCHANGED <<events, outerVars>>

\* ---- the reader goroutine of Manager.Start ---------------------------
NextChunk(s, n) ==
    LET base == Len(Flat(emitted[s]))
    IN [i \in 1..n |-> ByteAt(s, base + i)]

\* A reader that hands a chunk to broadcast without appending it first.
Read_skipAppend(s, n, err) ==
    /\ rpc[s] = "read"
    /\ n > 0 \/ err
    /\ n > 0 => ~ptyClosed[s]
    /\ err => ptyClosed[s] \/ proc[s] # "running"
    /\ emitted' = IF n > 0
                    THEN [emitted EXCEPT ![s] = Append(@, NextChunk(s, n))]
                    ELSE emitted
    /\ rerr' = [rerr EXCEPT ![s] = err]
    /\ rpc' = [rpc EXCEPT ![s] = IF n > 0 THEN "broadcast" ELSE "teardown"]
    /\ IF n > 0 THEN Event ELSE UNCHANGED events
    /\ UNCHANGED outerVars
    /\ UNCHANGED <<mgrVars, procVars, replayBuf, chanVars, clientVars, stopVars>>

\* A reader that breaks out of the loop on the error before it has
\* handled the bytes that came with it.
Read_dropLastChunk(s, n, err) ==
    /\ rpc[s] = "read"
    /\ n > 0 \/ err
    /\ n > 0 => ~ptyClosed[s]
    /\ err => ptyClosed[s] \/ proc[s] # "running"
    /\ emitted' = IF n > 0
                    THEN [emitted EXCEPT ![s] = Append(@, NextChunk(s, n))]
                    ELSE emitted
    /\ rerr' = [rerr EXCEPT ![s] = err]
    /\ rpc' = [rpc EXCEPT ![s] = IF n > 0 /\ ~err THEN "append" ELSE "teardown"]
    /\ IF n > 0 THEN Event ELSE UNCHANGED events
    /\ UNCHANGED outerVars
    /\ UNCHANGED <<mgrVars, procVars, replayBuf, chanVars, clientVars, stopVars>>

\* n, err := ptmx.Read(buf) returning n bytes and, when err is TRUE, an error.
\* Data arrives while the PTY is open; the error is EOF/EIO once the child is
\* gone, or the closed file after Stop.
Read(s, n, err) ==
    /\ rpc[s] = "read"
    /\ n > 0 \/ err
    /\ n > 0 => ~ptyClosed[s]
    /\ err => ptyClosed[s] \/ proc[s] # "running"
    /\ emitted' = IF n > 0
                    THEN [emitted EXCEPT ![s] = Append(@, NextChunk(s, n))]
                    ELSE emitted
    /\ rerr' = [rerr EXCEPT ![s] = err]
    /\ rpc' = [rpc EXCEPT ![s] = IF n > 0 THEN "append" ELSE "teardown"]
    /\ IF n > 0 THEN Event ELSE UNCHANGED events
    /\ UNCHANGED outerVars
    /\ UNCHANGED <<mgrVars, procVars, replayBuf, chanVars, clientVars, stopVars>>

ReaderRead(s) == \E n \in 0..readBufSize, err \in BOOLEAN : Read(s, n, err)

\* The Read of a child that prints nothing: only the final error.
ReaderReadEnd(s) == Read(s, 0, TRUE)

\* The chunk the reader holds between Read and the end of broadcast.
ReaderData(s) == Payload(s, Len(emitted[s]))

\* sess.appendReplay(data)
ReaderAppend(s) ==
    /\ rpc[s] = "append"
    /\ replayBuf' = [replayBuf EXCEPT
                       ![s] = appendReplay(@, PayloadBytes(ReaderData(s)))]
    /\ rpc' = [rpc EXCEPT ![s] = "broadcast"]
    /\ UNCHANGED <<mgrVars, procVars, rerr, emitted, chanVars, clientVars, stopVars>>
    /\ UNCHANGED <<events, outerVars>>

\* select { case ch <- data: default: }
Offer(q, p) == IF Len(q) < subChanCap THEN Append(q, p) ELSE q

\* A broadcast that gives up at a full channel: nobody gets the payload.
broadcast_stopAtFull(s, p) ==
    IF \E c \in subscribers[s] : Len(queue[c]) >= subChanCap
      THEN queue
      ELSE [c \in Chans |-> IF c \in subscribers[s] THEN Append(queue[c], p) ELSE queue[c]]

\* A broadcast over one subscriber set shared by all sessions.
broadcast_allSessions(s, p) ==
    [c \in Chans |-> IF \E r \in S : c \in subscribers[r]
                       THEN Offer(queue[c], p) ELSE queue[c]]

\* The queues after Session.broadcast(data) on session s.
broadcast(s, p) ==
    [c \in Chans |-> IF c \in subscribers[s] THEN Offer(queue[c], p) ELSE queue[c]]

\* sess.broadcast(data), the whole loop under subMu
ReaderBroadcast(s) ==
    /\ rpc[s] = "broadcast"
    /\ queue' = broadcast(s, ReaderData(s))
    /\ overflows' = [c \in Chans |->
                       IF c \in subscribers[s] /\ Len(queue[c]) >= subChanCap
                         THEN overflows[c] + 1 ELSE overflows[c]]
    /\ panicked' = (panicked \/ \E c \in subscribers[s] : closed[c] > 0)
    /\ rpc' = [rpc EXCEPT ![s] = IF rerr[s] THEN "teardown" ELSE "read"]
    /\ UNCHANGED <<mgrVars, procVars, replayBuf, rerr, emitted, subscribers,
                   chanSess, closed, clientVars, stopVars>>
    /\ UNCHANGED <<events, outerVars>>

\* A teardown that closes the channels and leaves them in the map.
ReaderTeardown_keepRegistered(s) ==
    /\ rpc[s] = "teardown"
    /\ closed' = [c \in Chans |-> IF c \in subscribers[s] THEN closed[c] + 1 ELSE closed[c]]
    /\ panicked' = (panicked \/ \E c \in subscribers[s] : closed[c] > 0)
    /\ rpc' = [rpc EXCEPT ![s] = "end"]
    /\ UNCHANGED <<mgrVars, procVars, replayBuf, rerr, emitted, chanSess, queue,
                   overflows, clientVars, stopVars, subscribers>>
    /\ UNCHANGED <<events, outerVars>>

\* After the loop: close and delete every subscriber channel, under subMu.
ReaderTeardown(s) ==
    /\ rpc[s] = "teardown"
    /\ closed' = [c \in Chans |-> IF c \in subscribers[s] THEN closed[c] + 1 ELSE closed[c]]
    /\ panicked' = (panicked \/ \E c \in subscribers[s] : closed[c] > 0)
    /\ subscribers' = [subscribers EXCEPT ![s] = {}]
    /\ rpc' = [rpc EXCEPT ![s] = "end"]
    /\ UNCHANGED <<mgrVars, procVars, replayBuf, rerr, emitted, chanSess, queue,
                   overflows, clientVars, stopVars>>
    /\ UNCHANGED <<events, outerVars>>

\* ---- the exit monitor goroutine of Manager.Start ---------------------
\* A monitor that goes on without waiting for the child to exit.
MonitorWait_noWait(s) ==
    /\ mpc[s] = "wait"
    /\ mpc' = [mpc EXCEPT ![s] = "setStopped"]
    /\ UNCHANGED <<mgrVars, proc, signals, ptyClosed, doneClosed, stopped,
                   readerVars, chanVars, clientVars, stopVars>>
    /\ UNCHANGED <<events, outerVars>>

\* cmd.Wait() returns: the child is reaped.
MonitorWait(s) ==
    /\ mpc[s] = "wait"
    /\ proc[s] = "exited"
    /\ proc' = [proc EXCEPT ![s] = "reaped"]
    /\ mpc' = [mpc EXCEPT ![s] = "setStopped"]
    /\ UNCHANGED <<mgrVars, signals, ptyClosed, doneClosed, stopped,
                   readerVars, chanVars, clientVars, stopVars>>
    /\ UNCHANGED <<events, outerVars>>

\* sess.mu.Lock(); sess.stopped = true; sess.mu.Unlock()
MonitorSetStopped(s) ==
    /\ mpc[s] = "setStopped"
    /\ stopped' = [stopped EXCEPT ![s] = TRUE]
    /\ mpc' = [mpc EXCEPT ![s] = "closeDone"]
    /\ UNCHANGED <<mgrVars, proc, signals, ptyClosed, doneClosed,
                   readerVars, chanVars, clientVars, stopVars>>
    /\ UNCHANGED <<events, outerVars>>

\* close(sess.Done)
MonitorCloseDone(s) ==
    /\ mpc[s] = "closeDone"
    /\ doneClosed' = [doneClosed EXCEPT ![s] = @ + 1]
    /\ mpc' = [mpc EXCEPT ![s] = "end"]
    /\ UNCHANGED <<mgrVars, proc, signals, ptyClosed, stopped,
                   readerVars, chanVars, clientVars, stopVars>>
    /\ UNCHANGED <<events, outerVars>>

\* ---- clients: Replay, Subscribe, receive, unsub -----------------------
\* A client holds the *Session that Start returned (or Get found): every
\* session whose Start has returned can be used, also after it has ended.
HasHandle(s) == spc[s] = "done"

\* Clients start in index order (they are interchangeable).
ClientTurn(c) == \A b \in Chans : b < c => cpc[b] # "idle"

\* snapshot := sess.Replay()
ClientReplay(c, s) ==
    /\ cpc[c] = "idle"
    /\ ClientTurn(c)
    /\ HasHandle(s)
    /\ ctarget' = [ctarget EXCEPT ![c] = s]
    /\ snapshot' = [snapshot EXCEPT ![c] = Replay(s)]
    /\ cpc' = [cpc EXCEPT ![c] = "replayed"]
    /\ UNCHANGED <<mgrVars, procVars, readerVars, chanVars, recvd, subInfo, stopVars>>
    /\ Event
    /\ UNCHANGED outerVars

\* Chunks of s that broadcast has already been through.
BroadcastDone(s) ==
    IF rpc[s] \in {"append", "broadcast"} THEN Len(emitted[s]) - 1 ELSE Len(emitted[s])

\* ch, unsub := sess.Subscribe(): a new channel, added to the set under subMu.
Subscribe(c, s) ==
    /\ chanSess' = [chanSess EXCEPT ![c] = s]
    /\ subscribers' = [subscribers EXCEPT ![s] = @ \cup {c}]
    /\ subInfo' = [subInfo EXCEPT ![c] = [reads |-> Len(emitted[s]),
                                          bcasts |-> BroadcastDone(s),
                                          ended |-> doneClosed[s] > 0 /\ rpc[s] = "end"]]

ClientSubscribe(c, s) ==
    /\ \/ cpc[c] = "idle" /\ ClientTurn(c) /\ HasHandle(s)
       \/ cpc[c] = "replayed" /\ s = ctarget[c]
    /\ Subscribe(c, s)
    /\ ctarget' = [ctarget EXCEPT ![c] = s]
    /\ cpc' = [cpc EXCEPT ![c] = "subscribed"]
    /\ UNCHANGED <<mgrVars, procVars, readerVars, queue, closed, panicked, overflows,
                   snapshot, recvd, stopVars>>
    /\ Event
    /\ UNCHANGED outerVars

\* A receive that hands the payloads over newest first.
ClientRecv_newestFirst(c) ==
    /\ chanSess[c] # 0
    /\ queue[c] # <<>>
    /\ recvd' = [recvd EXCEPT ![c] = <<Head(queue[c])>> \o @]
    /\ queue' = [queue EXCEPT ![c] = Tail(@)]
    /\ UNCHANGED <<mgrVars, procVars, readerVars, subscribers, chanSess, closed,
                   panicked, overflows, cpc, ctarget, snapshot, subInfo, stopVars>>
    /\ UNCHANGED <<events, outerVars>>

\* data, ok := <-ch with a payload buffered
ClientRecv(c) ==
    /\ chanSess[c] # 0
    /\ queue[c] # <<>>
    /\ recvd' = [recvd EXCEPT ![c] = Append(@, Head(queue[c]))]
    /\ queue' = [queue EXCEPT ![c] = Tail(@)]
    /\ UNCHANGED <<mgrVars, procVars, readerVars, subscribers, chanSess, closed,
                   panicked, overflows, cpc, ctarget, snapshot, subInfo, stopVars>>
    /\ UNCHANGED <<events, outerVars>>

\* unsub(): delete(s.subscribers, ch) under subMu; any number of calls.
ClientUnsub(c) ==
    /\ cpc[c] \in {"subscribed", "cancelled"}
    /\ subscribers' = [subscribers EXCEPT ![chanSess[c]] = @ \ {c}]
    /\ cpc' = [cpc EXCEPT ![c] = "cancelled"]
    /\ UNCHANGED <<mgrVars, procVars, readerVars, chanSess, queue, closed, panicked,
                   overflows, ctarget, snapshot, recvd, subInfo, stopVars>>
    /\ UNCHANGED <<events, outerVars>>

\* ---- Manager.Stop -----------------------------------------------------
StopTurn(t) == \A u \in StopCallers : u < t => stpc[u] # "idle"

\* m.mu.Lock(); sess, ok := m.sessions[id]; not found: return the error;
\* else delete(m.sessions, id); m.mu.Unlock()
StopLookup(t, id) ==
    /\ stpc[t] = "idle"
    /\ StopTurn(t)
    /\ IF Get(id) = 0
         THEN /\ stret' = [stret EXCEPT ![t] = "notfound"]
              /\ stpc' = [stpc EXCEPT ![t] = "done"]
              /\ UNCHANGED <<sessions, stsess>>
         ELSE /\ stsess' = [stsess EXCEPT ![t] = Get(id)]
              /\ sessions' = [sessions EXCEPT ![id] = 0]
              /\ stpc' = [stpc EXCEPT ![t] = "locked"]
              /\ UNCHANGED stret
    /\ UNCHANGED <<spc, sessID, procVars, readerVars, chanVars, clientVars>>
    /\ Event
    /\ UNCHANGED outerVars

\* sess.mu.Lock(); if sess.stopped { return nil };
\* Process.Signal(SIGTERM); PTY.Close(); return nil
StopSignal(t) ==
    /\ stpc[t] = "locked"
    /\ LET s == stsess[t]
       IN IF stopped[s]
            THEN UNCHANGED <<signals, ptyClosed>>
            ELSE /\ signals' = [signals EXCEPT ![s] = Append(@, "SIGTERM")]
                 /\ ptyClosed' = [ptyClosed EXCEPT ![s] = TRUE]
    /\ stret' = [stret EXCEPT ![t] = "nil"]
    /\ stpc' = [stpc EXCEPT ![t] = "done"]
    /\ UNCHANGED <<mgrVars, proc, doneClosed, stopped, mpc, readerVars, chanVars,
                   clientVars, stsess>>
    /\ UNCHANGED <<events, outerVars>>

\* ---- Manager.Resize and the HTTP input handler -------------------------
\* Window sizes a caller asks for (0 is the size the PTY was started with).
WinSizes == {1, 2}

\* A Resize that takes an unknown id for the first session of the registry.
Resize_anySession(id, sz) ==
    /\ LET s == IF Get(id) # 0 THEN Get(id) ELSE 1
       IN IF ptyClosed[s] \/ proc[s] = "none"
            THEN /\ lastCall' = [op |-> "resize", id |-> id, ret |-> "error"]
                 /\ UNCHANGED winsize
            ELSE /\ winsize' = [winsize EXCEPT ![s] = sz]
                 /\ lastCall' = [op |-> "resize", id |-> id, ret |-> "nil"]
    /\ UNCHANGED <<mgrVars, procVars, readerVars, chanVars, clientVars, stopVars, written, srvVars, sideVars>>
    /\ Event

\* sess := m.Get(id); nil: "session not found"; else pty.Setsize(sess.PTY, ...),
\* which fails on a closed file.  (Get and Setsize are taken as one step.)
Resize(id, sz) ==
    /\ IF Get(id) = 0
         THEN /\ lastCall' = [op |-> "resize", id |-> id, ret |-> "notfound"]
              /\ UNCHANGED winsize
         ELSE IF ptyClosed[Get(id)]
                THEN /\ lastCall' = [op |-> "resize", id |-> id, ret |-> "error"]
                     /\ UNCHANGED winsize
                ELSE /\ winsize' = [winsize EXCEPT ![Get(id)] = sz]
                     /\ lastCall' = [op |-> "resize", id |-> id, ret |-> "nil"]
    /\ UNCHANGED <<mgrVars, procVars, readerVars, chanVars, clientVars, stopVars, written, srvVars, sideVars>>
    /\ Event

\* Session.Write(bytes): the bytes go to the terminal's write side; it fails
\* when the write side is closed.  TRUE when the write succeeds.
Write(s) == ~ptyClosed[s]

\* POST /sessions/{id}/input.  A body that is not JSON: 400.  Unknown id: 404.
\* Write error: 500.  Otherwise 204.
HandleInput(id, okJSON) ==
    /\ IF ~okJSON
         THEN /\ lastCall' = [op |-> "input", id |-> id, ret |-> "400"]
              /\ UNCHANGED written
         ELSE IF Get(id) = 0
                THEN /\ lastCall' = [op |-> "input", id |-> id, ret |-> "404"]
                     /\ UNCHANGED written
                ELSE IF Write(Get(id))
                       THEN /\ written' = [written EXCEPT ![Get(id)] = @ + 1]
                            /\ lastCall' = [op |-> "input", id |-> id, ret |-> "204"]
                       ELSE /\ lastCall' = [op |-> "input", id |-> id, ret |-> "500"]
                            /\ UNCHANGED written
    /\ UNCHANGED <<mgrVars, procVars, readerVars, chanVars, clientVars, stopVars, winsize, srvVars, sideVars>>
    /\ Event

\* ---- main: startup, shutdown ------------------------------------------
\* An UPDATE that only looks for status 'running'.
StaleStopped_onlyRunning(r) ==
    [id \in Ids |-> IF r[id] = "running" THEN "stopped" ELSE r[id]]

\* UPDATE sessions SET status = 'stopped' WHERE status IN ('running', 'starting')
StaleStopped(r) ==
    [id \in Ids |-> IF r[id] \in {"running", "starting"} THEN "stopped" ELSE r[id]]

\* main up to and including cleanupStaleSessions; when the UPDATE fails the
\* error is logged and main goes on.
MainCleanup(dbErr) ==
    /\ server = "down"
    /\ boots < MaxBoots
    /\ boots' = boots + 1
    /\ rows' = IF dbErr THEN rows ELSE StaleStopped(rows)
    /\ cleanups' = Append(cleanups, ~dbErr)
    /\ server' = "cleaned"
    /\ UNCHANGED <<mgrVars, procVars, readerVars, chanVars, clientVars, stopVars,
                   events, apiVars, sideVars, early, before, orows, stopAllVars, orchVars>>

\* server.New (with a new, empty Manager) and ListenAndServe.
MainServe ==
    /\ server = "cleaned"
    /\ sessions' = [id \in Ids |-> 0]
    /\ server' = "serving"
    /\ UNCHANGED <<spc, sessID, procVars, readerVars, chanVars, clientVars, stopVars,
                   events, apiVars, sideVars, boots, cleanups, early, before, dbVars,
                   stopAllVars, orchVars>>

\* The sessions that are registered with a running child.
LiveSessions == {s \in S : proc[s] = "running" /\ Get(sessID[s]) = s}

\* SIGINT / SIGTERM arrives: the shutdown goroutine calls StopAll, which
\* first copies the ids of the registry under m.mu.
ShutdownSignal ==
    /\ server = "serving"
    /\ server' = "stopall"
    /\ saIds' = ListActive
    /\ before' = LiveSessions
    /\ UNCHANGED <<mgrVars, procVars, readerVars, chanVars, clientVars, stopVars,
                   events, apiVars, sideVars, boots, cleanups, early, dbVars, sapc, sasess,
                   orchVars>>

\* StopAll: m.Stop(id) for the next id, first critical section (under m.mu).
StopAllLookup(id) ==
    /\ server = "stopall"
    /\ sapc = "idle"
    /\ id \in saIds
    /\ saIds' = saIds \ {id}
    /\ IF Get(id) = 0
         THEN UNCHANGED <<sessions, sapc, sasess>>
         ELSE /\ sasess' = Get(id)
              /\ sessions' = [sessions EXCEPT ![id] = 0]
              /\ sapc' = "locked"
    /\ UNCHANGED <<spc, sessID, procVars, readerVars, chanVars, clientVars, stopVars,
                   events, apiVars, sideVars, bootVars, dbVars, orchVars>>

\* StopAll: m.Stop(id), second critical section (under sess.mu).
StopAllSignal ==
    /\ server = "stopall"
    /\ sapc = "locked"
    /\ IF stopped[sasess]
         THEN UNCHANGED <<signals, ptyClosed>>
         ELSE /\ signals' = [signals EXCEPT ![sasess] = Append(@, "SIGTERM")]
              /\ ptyClosed' = [ptyClosed EXCEPT ![sasess] = TRUE]
    /\ sapc' = "idle"
    /\ sasess' = 0
    /\ UNCHANGED <<mgrVars, proc, doneClosed, stopped, mpc, readerVars, chanVars,
                   clientVars, stopVars, events, apiVars, sideVars, bootVars, dbVars, saIds,
                   orchVars>>

\* After StopAll: cleanupWorktrees, httpSrv.Shutdown, main returns and the
\* process is gone, with its Manager, its goroutines and its file
\* descriptors; the children are separate processes.
ServerExit ==
    /\ server = "stopall"
    /\ saIds = {}
    /\ sapc = "idle"
    /\ server' = "down"
    /\ cleanups' = <<>>
    /\ sessions' = [id \in Ids |-> 0]
    /\ spc' = [s \in S |-> IF spc[s] = "register" THEN "dead" ELSE spc[s]]
    /\ rpc' = [s \in S |-> IF rpc[s] = "none" THEN "none" ELSE "dead"]
    /\ mpc' = [s \in S |-> IF mpc[s] = "none" THEN "none" ELSE "dead"]
    /\ ptyClosed' = [s \in S |-> ptyClosed[s] \/ proc[s] # "none"]
    /\ opc' = [o \in Creates |-> IF opc[o] \in {"idle", "done"} THEN opc[o] ELSE "dead"]
    /\ omon' = [o \in Creates |-> IF omon[o] = "wait" THEN "dead" ELSE omon[o]]
    /\ UNCHANGED <<sessID, proc, signals, doneClosed, stopped, replayBuf, rerr, emitted,
                   chanVars, clientVars, stopVars, events, apiVars, sideVars, boots, early,
                   before, dbVars, stopAllVars, oexisting, oret>>

\* ---- OrchestratorHandler.HandleCreate ---------------------------------
\* The server accepts requests from ListenAndServe until the process ends.
ServerUp == server \in {"serving", "stopall"}

\* manager.Start has been entered for request o, and the Session it built.
OrchStarted(o) == \E s \in S : spc[s] \in {"register", "done"} /\ sessID[s] = OrchId(o)
OrchSess(o) == CHOOSE s \in S : spc[s] \in {"register", "done"} /\ sessID[s] = OrchId(o)

\* SELECT ... FROM orchestrator_sessions WHERE status = 'running' LIMIT 1
OrchSelect(o) ==
    /\ ServerUp
    /\ opc[o] = "idle"
    /\ \A p \in Creates : p < o => opc[p] # "idle"
    /\ early' = (early \/ cleanups = <<>>)
    /\ LET running == {id \in Ids : orows[id] = "running"}
       IN IF running = {}
            THEN /\ opc' = [opc EXCEPT ![o] = "start"]
                 /\ UNCHANGED oexisting
            ELSE /\ \E id \in running : oexisting' = [oexisting EXCEPT ![o] = id]
                 /\ opc' = [opc EXCEPT ![o] = "selected"]
    /\ UNCHANGED <<mgrVars, procVars, readerVars, chanVars, clientVars, stopVars,
                   events, apiVars, sideVars, server, boots, cleanups, before, dbVars,
                   stopAllVars, oret, omon>>

\* A running row was found: answer 200 with it when the manager still has
\* the session, else mark the row stopped and go on to create a new one.
OrchCheck(o) ==
    /\ opc[o] = "selected"
    /\ IF Get(oexisting[o]) # 0
         THEN /\ oret' = [oret EXCEPT ![o] = "200"]
              /\ opc' = [opc EXCEPT ![o] = "done"]
              /\ UNCHANGED orows
         ELSE /\ orows' = [orows EXCEPT ![oexisting[o]] = "stopped"]
              /\ opc' = [opc EXCEPT ![o] = "start"]
              /\ UNCHANGED oret
    /\ UNCHANGED <<mgrVars, procVars, readerVars, chanVars, clientVars, stopVars,
                   events, apiVars, sideVars, bootVars, rows, stopAllVars, oexisting, omon>>

\* h.manager.Start(sessionID, ...) with the fresh id, as Start call number s.
OrchStartSpawn(o, s) ==
    /\ opc[o] = "start"
    /\ ~OrchStarted(o)
    /\ StartSpawn(s, OrchId(o))

\* h.manager.Start returned an error: answer 500.
OrchStartError(o) ==
    /\ opc[o] = "start"
    /\ ~OrchStarted(o)
    /\ oret' = [oret EXCEPT ![o] = "500"]
    /\ opc' = [opc EXCEPT ![o] = "done"]
    /\ UNCHANGED <<mgrVars, procVars, readerVars, chanVars, clientVars, stopVars,
                   events, apiVars, sideVars, bootVars, dbVars, stopAllVars, oexisting, omon>>

\* Start returned the session: INSERT INTO orchestrator_sessions (..., 'running', ...)
OrchInsert(o) ==
    /\ opc[o] = "start"
    /\ OrchStarted(o)
    /\ spc[OrchSess(o)] = "done"
    /\ orows' = [orows EXCEPT ![OrchId(o)] = "running"]
    /\ opc' = [opc EXCEPT ![o] = "inserted"]
    /\ UNCHANGED <<mgrVars, procVars, readerVars, chanVars, clientVars, stopVars,
                   events, apiVars, sideVars, bootVars, rows, stopAllVars, oexisting, oret, omon>>

\* go func() { <-sess.Done(); ... }() is started and the handler answers 201.
OrchRespond(o) ==
    /\ opc[o] = "inserted"
    /\ omon' = [omon EXCEPT ![o] = "wait"]
    /\ oret' = [oret EXCEPT ![o] = "201"]
    /\ opc' = [opc EXCEPT ![o] = "done"]
    /\ UNCHANGED <<mgrVars, procVars, readerVars, chanVars, clientVars, stopVars,
                   events, apiVars, sideVars, bootVars, dbVars, stopAllVars, oexisting>>

\* An exit goroutine that waits for Done and leaves the row as it is.
OrchMonitor_noUpdate(o) ==
    /\ omon[o] = "wait"
    /\ doneClosed[OrchSess(o)] > 0
    /\ omon' = [omon EXCEPT ![o] = "end"]
    /\ UNCHANGED <<mgrVars, procVars, readerVars, chanVars, clientVars, stopVars,
                   events, apiVars, sideVars, bootVars, dbVars, stopAllVars, opc, oexisting, oret>>

\* <-sess.Done(); UPDATE orchestrator_sessions SET status = 'stopped' WHERE id = ?
OrchMonitor(o) ==
    /\ omon[o] = "wait"
    /\ doneClosed[OrchSess(o)] > 0
    /\ orows' = [orows EXCEPT ![OrchId(o)] = "stopped"]
    /\ omon' = [omon EXCEPT ![o] = "end"]
    /\ UNCHANGED <<mgrVars, procVars, readerVars, chanVars, clientVars, stopVars,
                   events, apiVars, sideVars, bootVars, rows, stopAllVars, opc, oexisting, oret>>

\* ---- specifications ---------------------------------------------------
\* The life of one session: the first Start call, with id "s1", its reader,
\* exit monitor and child, the clients of the session and the Stop callers.
Next ==
    \/ StartFail(1)
    \/ StartSpawn(1, "s1")
    \/ StartRegister(1)
    \/ ChildExit(1)
    \/ ReaderRead(1)
    \/ ReaderAppend(1)
    \/ ReaderBroadcast(1)
    \/ ReaderTeardown(1)
    \/ MonitorWait(1)
    \/ MonitorSetStopped(1)
    \/ MonitorCloseDone(1)
    \/ \E c \in Chans : ClientReplay(c, 1)
    \/ \E c \in Chans : ClientSubscribe(c, 1)
    \/ \E c \in Chans : ClientRecv(c)
    \/ \E c \in Chans : ClientUnsub(c)
    \/ \E t \in StopCallers : StopLookup(t, "s1")
    \/ \E t \in StopCallers : StopSignal(t)

Spec == Init /\ [][Next]_vars

\* The Manager with several sessions: Start and Stop on every id, and the
\* goroutines of every session; the children print nothing and nobody
\* subscribes.
NextManager ==
    \/ \E s \in S : StartFail(s)
    \/ \E s \in S, id \in Ids : StartSpawn(s, id)
    \/ \E s \in S : StartRegister(s)
    \/ \E s \in S : ChildExit(s)
    \/ \E s \in S : ReaderReadEnd(s)
    \/ \E s \in S : ReaderTeardown(s)
    \/ \E s \in S : MonitorWait(s)
    \/ \E s \in S : MonitorSetStopped(s)
    \/ \E s \in S : MonitorCloseDone(s)
    \/ \E t \in StopCallers, id \in Ids : StopLookup(t, id)
    \/ \E t \in StopCallers : StopSignal(t)

SpecManager == Init /\ [][NextManager]_vars

\* One session as in Spec, with Resize, input and Stop requests on every id:
\* "s2" is never started, and "s1" is unknown before Start registers it and
\* after Stop removed it.
NextApi ==
    \/ Next
    \/ \E id \in Ids, sz \in WinSizes : Resize(id, sz)
    \/ \E id \in Ids, okJSON \in BOOLEAN : HandleInput(id, okJSON)
    \/ \E t \in StopCallers : StopLookup(t, "s2")

SpecApi == Init /\ [][NextApi]_vars

\* The server with its orchestrator: create requests, the sessions they
\* start and their exit monitors; the children print nothing and the reader
\* goroutines stay in Read.
NextOrch ==
    \/ \E o \in Creates : OrchSelect(o)
    \/ \E o \in Creates : OrchCheck(o)
    \/ \E o \in Creates, s \in S : OrchStartSpawn(o, s)
    \/ \E o \in Creates : OrchStartError(o)
    \/ \E o \in Creates : OrchInsert(o)
    \/ \E o \in Creates : OrchRespond(o)
    \/ \E o \in Creates : OrchMonitor(o)
    \/ \E s \in S : StartRegister(s)
    \/ \E s \in S : ChildExit(s)
    \/ \E s \in S : MonitorWait(s)
    \/ \E s \in S : MonitorSetStopped(s)
    \/ \E s \in S : MonitorCloseDone(s)

SpecOrch == Init /\ [][NextOrch]_vars

\* Every goroutine of the server that can run eventually runs; a child exits
\* when it pleases.
FairnessOrch ==
    /\ \A o \in Creates : WF_vars(OrchCheck(o))
    /\ \A o \in Creates : WF_vars(OrchInsert(o))
    /\ \A o \in Creates : WF_vars(OrchRespond(o))
    /\ \A o \in Creates : WF_vars(OrchMonitor(o))
    /\ \A s \in S : WF_vars(StartRegister(s))
    /\ \A s \in S : WF_vars(MonitorWait(s))
    /\ \A s \in S : WF_vars(MonitorSetStopped(s))
    /\ \A s \in S : WF_vars(MonitorCloseDone(s))

FairSpecOrch == SpecOrch /\ FairnessOrch

\* The server process over its lives: main's startup, one create request
\* with the session it starts, the shutdown signal, StopAll and the exit.
NextServer ==
    \/ OrchSelect(1)
    \/ OrchCheck(1)
    \/ OrchStartSpawn(1, 1)
    \/ OrchStartError(1)
    \/ OrchInsert(1)
    \/ OrchRespond(1)
    \/ OrchMonitor(1)
    \/ StartRegister(1)
    \/ ChildExit(1)
    \/ MonitorWait(1)
    \/ MonitorSetStopped(1)
    \/ MonitorCloseDone(1)
    \/ \E dbErr \in BOOLEAN : MainCleanup(dbErr)
    \/ MainServe
    \/ ShutdownSignal
    \/ \E id \in Ids : StopAllLookup(id)
    \/ StopAllSignal
    \/ ServerExit

SpecServer == InitBoot /\ [][NextServer]_vars

\* Several sessions running side by side, each under its own id, each with
\* its reader and its clients; the children run and print.
NextMulti ==
    \/ StartSpawn(1, "s1")
    \/ StartSpawn(2, "s2")
    \/ \E s \in S : StartRegister(s)
    \/ \E s \in S : ReaderRead(s)
    \/ \E s \in S : ReaderAppend(s)
    \/ \E s \in S : ReaderBroadcast(s)
    \/ \E c \in Chans, s \in S : ClientReplay(c, s)
    \/ \E c \in Chans, s \in S : ClientSubscribe(c, s)
    \/ \E c \in Chans : ClientRecv(c)

SpecMulti == Init /\ [][NextMulti]_vars

\* Under the goroutine scheduler every runnable goroutine eventually runs:
\* the reader's steps, the monitor's steps, the second half of a Stop call
\* and of a Start call.  Read returns its final error once the PTY is closed
\* or the child is gone; a process that was sent SIGKILL exits.  Nothing
\* makes a child exit otherwise, print, or a client call.
KilledExit(s) == ChildExit(s) /\ \E i \in 1..Len(signals[s]) : signals[s][i] = "SIGKILL"

Fairness ==
    /\ WF_vars(StartRegister(1))
    /\ WF_vars(ReaderReadEnd(1))
    /\ WF_vars(ReaderAppend(1))
    /\ WF_vars(ReaderBroadcast(1))
    /\ WF_vars(ReaderTeardown(1))
    /\ WF_vars(MonitorWait(1))
    /\ WF_vars(MonitorSetStopped(1))
    /\ WF_vars(MonitorCloseDone(1))
    /\ WF_vars(KilledExit(1))
    /\ \A t \in StopCallers : WF_vars(StopSignal(t))

FairSpec == Spec /\ Fairness

\* ---- properties -------------------------------------------------------
\* The bytes that have gone through appendReplay on session s.
RingInput(s) ==
    Flat(SubSeq(emitted[s], 1,
                IF rpc[s] = "append" THEN Len(emitted[s]) - 1 ELSE Len(emitted[s])))

\* C1: with B the bytes the reader has put through appendReplay, Replay
\* returns exactly the last min(|B|, replayBufSize) bytes of B, and the ring
\* never holds more than replayBufSize bytes; a snapshot a client took is
\* never longer than the cap either.
C1_ReplayBound ==
    /\ \A s \in S :
        LET B == RingInput(s)
        IN /\ Replay(s) = LastN(B, Min(Len(B), replayBufSize))
           /\ Len(replayBuf[s]) <= replayBufSize
    /\ \A c \in Chans : Len(snapshot[c]) <= replayBufSize

\* A client took a full snapshot after the ring had overflowed.
C1_Witness ==
    \E c \in Chans :
        /\ cpc[c] = "replayed"
        /\ Len(RingInput(1)) > replayBufSize
        /\ snapshot[c] = Replay(1)
        /\ Len(snapshot[c]) = replayBufSize

\* What channel c has been given so far: received by the client or buffered.
Delivered(c) == recvd[c] \o queue[c]

\* The payloads of session s from chunk number k + 1 up to chunk number n.
PayloadsFrom(s, k, n) == [i \in 1..(n - k) |-> Payload(s, k + i)]

\* C2: for a client that called Replay and then Subscribe, no byte of the
\* Replay snapshot is also in a payload delivered on the subscription (the
\* child's bytes are pairwise distinct, so a shared byte is a shared chunk).
C2_NoOverlap ==
    \A c \in Chans :
        cpc[c] \in {"subscribed", "cancelled"} =>
            Range(snapshot[c]) \cap Range(PayloadsBytes(Delivered(c))) = {}

\* C3: for a subscriber whose queue never overflowed, the bytes it has
\* received are a prefix of the bytes the reader read after Subscribe
\* returned.
C3_SingleStream ==
    \A c \in Chans :
        (chanSess[c] # 0 /\ overflows[c] = 0) =>
            LET s == chanSess[c]
            IN IsPrefix(PayloadsBytes(recvd[c]),
                        Flat(SubSeq(emitted[s], subInfo[c].reads + 1, Len(emitted[s]))))

\* C4: the reader is never blocked in broadcast; a subscriber whose queue was
\* never full when a payload was offered has been given every payload
\* broadcast since it subscribed, whatever the other subscribers did; and a
\* subscriber that never reads holds the first subChanCap of them, each
\* further one having been dropped for it.
C4_SlowSubscriber ==
    \A s \in S :
        /\ rpc[s] = "broadcast" => ENABLED ReaderBroadcast(s)
        /\ \A c \in subscribers[s] :
            LET n == BroadcastDone(s) - subInfo[c].bcasts
                all == PayloadsFrom(s, subInfo[c].bcasts, BroadcastDone(s))
            IN /\ overflows[c] = 0 => Delivered(c) = all
               /\ recvd[c] = <<>> =>
                    /\ queue[c] = SubSeq(all, 1, Min(n, subChanCap))
                    /\ overflows[c] = n - Len(queue[c])

\* A slow subscriber that never read and lost a payload, next to another
\* subscriber that drained and has been given more than subChanCap payloads.
C4_Witness ==
    \E slow \in subscribers[1], fast \in subscribers[1] :
        /\ slow # fast
        /\ recvd[slow] = <<>>
        /\ Len(queue[slow]) = subChanCap
        /\ overflows[slow] > 0
        /\ overflows[fast] = 0
        /\ Len(Delivered(fast)) > subChanCap

\* Manager.Stop has returned nil for session s.
StopRan(s) == \E t \in StopCallers : stpc[t] = "done" /\ stret[t] = "nil" /\ stsess[t] = s

\* C5: once Stop has run for a session nothing more is broadcast to a
\* subscriber channel of that session, and no subscriber channel is closed
\* more than once.
C5_StopInvariant ==
    /\ [][\A c \in Chans :
            (chanSess[c] # 0 /\ StopRan(chanSess[c])) => Len(queue'[c]) <= Len(queue[c])]_vars
    /\ [](\A c \in Chans : closed[c] <= 1)

\* C6: when the Stop calls on a session have run, one SIGTERM -> SIGKILL
\* escalation has been started and nothing more (SIGTERM is sent once), and
\* Done fires, exactly once.
C6_StopOnce ==
    /\ [](Len(signals[1]) <= 2 /\ doneClosed[1] <= 1)
    /\ [](\A i \in 1..Len(signals[1]) : signals[1][i] = "SIGTERM" => i = 1)
    /\ (StopRan(1) ~> (doneClosed[1] = 1))

\* C7: after Stop has sent SIGTERM to a running child, the child exits or
\* SIGKILL is sent, so Done eventually fires.
C7_StopEventual ==
    /\ (Len(signals[1]) > 0 /\ proc[1] = "running")
          ~> (proc[1] # "running" \/ \E i \in 1..Len(signals[1]) : signals[1][i] = "SIGKILL")
    /\ (Len(signals[1]) > 0) ~> (doneClosed[1] > 0)

\* C8: a channel that Subscribe returned after Done had fired and the reader
\* had torn down is closed.
C8_SubscribeEnded ==
    \A c \in Chans : (chanSess[c] # 0 /\ subInfo[c].ended) => closed[c] > 0

\* C9: after the cancel handle was called the channel is out of the
\* broadcast set and closed, whatever the number of calls, and nothing
\* panicked.
C9_Cancel ==
    /\ ~panicked
    /\ \A c \in Chans :
        cpc[c] = "cancelled" => (c \notin subscribers[chanSess[c]] /\ closed[c] = 1)

\* Session s is registered under its id and its child runs.
LiveRegistered(s) == proc[s] = "running" /\ Get(sessID[s]) = s

\* C10: Start on an id that names a live session starts no child and leaves
\* that session registered; no two live children whose Start returned have
\* the same id.
C10_IdUnique ==
    /\ [][\A s \in S : LiveRegistered(s) =>
            /\ Get(sessID[s])' \in {s, 0}
            /\ \A r \in S \ {s} :
                 (proc[r] = "none" /\ proc'[r] = "running") => sessID'[r] # sessID[s]]_vars
    /\ [](\A s \in S : \A r \in S \ {s} :
            ~(/\ spc[s] = "done" /\ proc[s] = "running"
              /\ spc[r] = "done" /\ proc[r] = "running"
              /\ sessID[r] = sessID[s]))

\* C11: Done is closed at most once per session, only when the child has been
\* reaped, and the stopped flag is set whenever Done is closed; the monitor
\* has closed Done exactly when it has ended.
C11_ExitSignal ==
    \A s \in S :
        /\ doneClosed[s] <= 1
        /\ doneClosed[s] > 0 => (proc[s] = "reaped" /\ stopped[s])
        /\ (mpc[s] = "end") <=> (doneClosed[s] = 1)

\* The child of the session exited, was reaped and Done fired.
C11_Witness ==
    doneClosed[1] = 1 /\ proc[1] = "reaped" /\ stopped[1] /\ mpc[1] = "end"

\* Channel c was registered with session s before the reader's teardown and
\* was not cancelled: teardown empties the set, so a channel that is still in
\* it after teardown was registered later.
RegisteredBeforeTeardown(c, s) ==
    /\ chanSess[c] = s
    /\ cpc[c] = "subscribed"
    /\ c \in subscribers[s] => rpc[s] # "end"

\* C12: whenever Done is closed every subscriber channel registered before
\* the reader's teardown is closed, and no payload is put on a subscriber
\* channel of the session from then on.
C12_TeardownOrdering ==
    /\ [](\A s \in S : doneClosed[s] > 0 =>
            \A c \in Chans : RegisteredBeforeTeardown(c, s) => closed[c] > 0)
    /\ [][\A c \in Chans :
            (chanSess[c] # 0 /\ doneClosed[chanSess[c]] > 0)
                => Len(queue'[c]) <= Len(queue[c])]_vars

\* C13: once the child of a started session has been reaped and Done has
\* fired, the session leaves the registry: eventually Get(id) does not return
\* it and ListActive does not contain its id.
C13_ReapRemoves ==
    (spc[1] = "done" /\ doneClosed[1] > 0)
        ~> (Get(sessID[1]) # 1 /\ sessID[1] \notin ListActive)

\* What a request on an unknown id must leave alone: every session's process,
\* PTY, ring, subscriber set and channels, and the registry.
SessionState == <<sessions, sessID, proc, signals, ptyClosed, doneClosed, stopped,
                  replayBuf, subscribers, queue, closed, winsize, written>>

Restarted == boots >= 2 /\ server = "serving"

\* C15: after a restart of the server, no session that was live when the
\* shutdown signal arrived has been signalled, and each of them whose child
\* still runs (same process) is in the registry, is listed, and its durable
\* row has not been marked stopped.
C15_RestartSurvival ==
    Restarted =>
        \A s \in before :
            /\ signals[s] = <<>>
            /\ proc[s] = "running" =>
                 /\ Get(sessID[s]) = s
                 /\ sessID[s] \in ListActive
                 /\ orows[sessID[s]] # "stopped"

AppendedChunks(s) ==
    IF rpc[s] = "append" THEN Len(emitted[s]) - 1 ELSE Len(emitted[s])

\* C17: every payload that was put on a subscriber channel (received or still
\* buffered) is a chunk that appendReplay had already been through, and each
\* of its bytes is in the ring or older than the oldest byte of the ring.
C17_AppendThenBroadcast ==
    \A c \in Chans : \A i \in 1..Len(Delivered(c)) :
        LET p == Delivered(c)[i]
        IN /\ p.idx <= AppendedChunks(p.sid)
           /\ \A b \in Range(PayloadBytes(p)) :
                \/ b \in Range(Replay(p.sid))
                \/ Replay(p.sid) # <<>> /\ b < Replay(p.sid)[1]

\* A subscriber has received a payload that has aged out of the ring and
\* holds another one whose bytes are in the ring.
C17_Witness ==
    \E c \in Chans :
        /\ recvd[c] # <<>>
        /\ Range(PayloadBytes(recvd[c][1])) \cap Range(Replay(1)) = {}
        /\ queue[c] # <<>>
        /\ Range(PayloadBytes(queue[c][1])) \subseteq Range(Replay(1))

\* Payload p occurs in sequence q before payload r does.
Before(q, p, r) == \E i, j \in 1..Len(q) : i < j /\ q[i] = p /\ q[j] = r

MarkerOf(b) == ((b - 1) \div 64) + 1

\* q holds bytes of session s only, consecutive in the order s emitted them.
OwnBytesInOrder(q, s) ==
    /\ \A i \in 1..Len(q) : MarkerOf(q[i]) = s
    /\ \A i \in 1..(Len(q) - 1) : q[i + 1] = q[i] + 1

\* C19: with several sessions running, every payload given to a subscriber
\* of session X was read from X's terminal and holds bytes of X only, and
\* Replay of X (now, and as any client got it) holds bytes of X only, in X's
\* emission order.
C19_NoCrossSession ==
    /\ \A c \in Chans : \A i \in 1..Len(Delivered(c)) :
          /\ Delivered(c)[i].sid = chanSess[c]
          /\ OwnBytesInOrder(PayloadBytes(Delivered(c)[i]), chanSess[c])
    /\ \A s \in S : OwnBytesInOrder(Replay(s), s)
    /\ \A c \in Chans : ctarget[c] # 0 => OwnBytesInOrder(snapshot[c], ctarget[c])

\* Both sessions have output in their rings and each has a subscriber that
\* received a payload.
C19_Witness ==
    /\ Replay(1) # <<>> /\ Replay(2) # <<>>
    /\ \E c, d \in Chans :
          /\ chanSess[c] = 1 /\ recvd[c] # <<>>
          /\ chanSess[d] = 2 /\ recvd[d] # <<>>

\* The session that create request o started has ended: its Start had
\* returned, its child was reaped and Done has fired.
OrchSessionEnded(o) ==
    /\ OrchStarted(o)
    /\ spc[OrchSess(o)] = "done"
    /\ doneClosed[OrchSess(o)] > 0

Finished(t) == lockop[t] # "none" /\ lockpc[t] = Len(LockProgram(lockop[t]))

NextOp(t) == LockProgram(lockop[t])[lockpc[t] + 1]

Callable(t) == lockop[t] # "none" /\ ~Finished(t)

\* A caller goroutine calls function f of the facade.
Call(t, f) ==
    /\ t \in Callers
    /\ lockop[t] = "none"
    /\ lockop' = [lockop EXCEPT ![t] = f]
    /\ UNCHANGED <<lockpc, holders, nonLockVars>>

\* sync.Mutex.Lock / sync.RWMutex.Lock: blocks while anyone holds the mutex.
MutexLock(t) ==
    /\ Callable(t)
    /\ NextOp(t).op = "Lock"
    /\ holders[NextOp(t).mu] = [writer |-> {}, readers |-> {}]
    /\ holders' = [holders EXCEPT ![NextOp(t).mu].writer = {t}]
    /\ lockpc' = [lockpc EXCEPT ![t] = @ + 1]
    /\ UNCHANGED <<lockop, nonLockVars>>

MutexUnlock(t) ==
    /\ Callable(t)
    /\ NextOp(t).op = "Unlock"
    /\ t \in holders[NextOp(t).mu].writer
    /\ holders' = [holders EXCEPT ![NextOp(t).mu].writer = {}]
    /\ lockpc' = [lockpc EXCEPT ![t] = @ + 1]
    /\ UNCHANGED <<lockop, nonLockVars>>

\* sync.RWMutex.RLock: blocks while a writer holds the mutex.
RLock(t) ==
    /\ Callable(t)
    /\ NextOp(t).op = "RLock"
    /\ holders[NextOp(t).mu].writer = {}
    /\ holders' = [holders EXCEPT ![NextOp(t).mu].readers = @ \cup {t}]
    /\ lockpc' = [lockpc EXCEPT ![t] = @ + 1]
    /\ UNCHANGED <<lockop, nonLockVars>>

RUnlock(t) ==
    /\ Callable(t)
    /\ NextOp(t).op = "RUnlock"
    /\ t \in holders[NextOp(t).mu].readers
    /\ holders' = [holders EXCEPT ![NextOp(t).mu].readers = @ \ {t}]
    /\ lockpc' = [lockpc EXCEPT ![t] = @ + 1]
    /\ UNCHANGED <<lockop, nonLockVars>>

TaskStep(t) ==
    \/ \E f \in Facade : Call(t, f)
    \/ MutexLock(t) \/ MutexUnlock(t) \/ RLock(t) \/ RUnlock(t)

NextLocks == \E t \in Tasks : TaskStep(t)

SpecLocks == Init /\ [][NextLocks]_vars

\* The Go scheduler runs every goroutine that can take a step.
FairnessLocks == \A t \in Tasks : WF_vars(TaskStep(t))

FairSpecLocks == SpecLocks /\ FairnessLocks

\* Task t has called Lock / RLock and is blocked in it.
Waiting(t) == Callable(t) /\ NextOp(t).op \in {"Lock", "RLock"} /\ ~ENABLED TaskStep(t)

\* C21: no task acquires the ring mutex while it holds the subscriber
\* mutex, and in every interleaving of Start, Stop, StopAll, Resize, Get,
\* ListActive, Subscribe, cancel, Replay, the reader and the exit monitor a
\* task that waits for a mutex gets past that wait.
C21_DeadlockFree ==
    /\ [](\A t \in Tasks :
            ~(t \in holders["subMu"].writer /\ Callable(t) /\ NextOp(t) = Op("Lock", "replayMu")))
    /\ \A t \in Tasks : Waiting(t) ~> ~Waiting(t)

\* The reader waits for the subscriber mutex that a Subscribe call holds
\* while the exit monitor waits for Session.mu that a Stop call holds.
C21_Witness ==
    /\ Waiting(<<"reader", 0>>) /\ holders["subMu"].writer = {<<"caller", 1>>}
    /\ lockop[<<"caller", 1>>] = "Subscribe"
    /\ Waiting(<<"monitor", 0>>) /\ holders["mu"].writer = {<<"caller", 2>>}
    /\ lockop[<<"caller", 2>>] = "Stop"

\* C22: under concurrent create requests at most one orchestrator row has
\* status running and at most one orchestrator child process is started.
C22_OrchSingleton ==
    /\ Cardinality({s \in S : proc[s] = "running" /\ \E o \in Creates : sessID[s] = OrchId(o)}) <= 1
    /\ Cardinality({id \in Ids : orows[id] = "running"}) <= 1

\* ---- workflows: HandleRun and executeWorkflowSteps ---------------------
nonWfVars == <<coreVars, srvVars, lockVars, termVars, idleVars>>

\* The outcome of the step is logged and the loop moves to the next step.
WfLogged(out) ==
    /\ wflog' = Append(wflog, [idx |-> Len(wflog) + 1, out |-> out])
    /\ wfpc' = IF Len(wflog) + 1 = Len(wfsteps) THEN "end" ELSE "step"

\* POST /workflows/{id}/run: no row 404, a database error 500, else 202 and
\* the goroutine that runs the steps.
HandleRun(res, json) ==
    /\ ServerUp
    /\ wfpc = "idle"
    /\ IF res = "norows"
         THEN wfret' = "404" /\ wfpc' = "done" /\ UNCHANGED wfjson
         ELSE IF res = "error"
                THEN wfret' = "500" /\ wfpc' = "done" /\ UNCHANGED wfjson
                ELSE wfret' = "202" /\ wfpc' = "spawned" /\ wfjson' = json
    /\ UNCHANGED <<wfsteps, wfsess, wflog, apiVars, nonWfVars>>

\* executeWorkflowSteps up to the loop: steps that do not parse end the run.
executeWorkflowSteps ==
    /\ wfpc = "spawned"
    /\ IF wfjson.valid
         THEN /\ wfsteps' = wfjson.steps
              /\ wfpc' = IF wfjson.steps = <<>> THEN "end" ELSE "step"
         ELSE /\ wfpc' = "end"
              /\ UNCHANGED wfsteps
    /\ UNCHANGED <<wfjson, wfsess, wfret, wflog, apiVars, nonWfVars>>

\* An executor that gives up the run when a shell step fails.
ExecuteStep_abortOnError(shellErr) ==
    /\ wfpc = "step"
    /\ LET step == wfsteps[Len(wflog) + 1]
       IN CASE step.type = "shell" ->
                 /\ IF shellErr
                      THEN /\ wflog' = Append(wflog, [idx |-> Len(wflog) + 1, out |-> "shell_error"])
                           /\ wfpc' = "end"
                      ELSE WfLogged("shell_ok")
                 /\ UNCHANGED wfsess
            [] step.type = "send_input" ->
                 IF step.session_id = "" \/ step.data = ""
                   THEN WfLogged("missing") /\ UNCHANGED wfsess
                   ELSE IF Get(step.session_id) = 0
                          THEN WfLogged("notfound") /\ UNCHANGED wfsess
                          ELSE /\ wfsess' = Get(step.session_id)
                               /\ wfpc' = "write"
                               /\ UNCHANGED wflog
            [] OTHER -> WfLogged("unknown") /\ UNCHANGED wfsess
    /\ UNCHANGED <<wfjson, wfsteps, wfret, apiVars, nonWfVars>>

\* One iteration of the loop up to sess.Write: a shell step runs its command
\* (shellErr: it failed or timed out), a send_input step checks its fields
\* and looks the session up, any other type is skipped.
ExecuteStep(shellErr) ==
    /\ wfpc = "step"
    /\ LET step == wfsteps[Len(wflog) + 1]
       IN CASE step.type = "shell" ->
                 /\ WfLogged(IF shellErr THEN "shell_error" ELSE "shell_ok")
                 /\ UNCHANGED wfsess
            [] step.type = "send_input" ->
                 IF step.session_id = "" \/ step.data = ""
                   THEN WfLogged("missing") /\ UNCHANGED wfsess
                   ELSE IF Get(step.session_id) = 0
                          THEN WfLogged("notfound") /\ UNCHANGED wfsess
                          ELSE /\ wfsess' = Get(step.session_id)
                               /\ wfpc' = "write"
                               /\ UNCHANGED wflog
            [] OTHER -> WfLogged("unknown") /\ UNCHANGED wfsess
    /\ UNCHANGED <<wfjson, wfsteps, wfret, apiVars, nonWfVars>>

\* sess.Write([]byte(step.Data)) of a send_input step.
ExecuteWrite ==
    /\ wfpc = "write"
    /\ IF Write(wfsess)
         THEN /\ written' = [written EXCEPT ![wfsess] = @ + 1]
              /\ WfLogged("write_ok")
         ELSE /\ WfLogged("write_error")
              /\ UNCHANGED written
    /\ UNCHANGED <<wfjson, wfsteps, wfsess, wfret, winsize, lastCall, nonWfVars>>

\* A workflow run beside a session "s1" that is started and stopped.
NextWorkflow ==
    \/ \E res \in {"row", "norows", "error"}, json \in StepsJSON : HandleRun(res, json)
    \/ executeWorkflowSteps
    \/ \E shellErr \in BOOLEAN : ExecuteStep(shellErr)
    \/ ExecuteWrite
    \/ StartSpawn(1, "s1")
    \/ StartRegister(1)
    \/ \E t \in StopCallers : StopLookup(t, "s1")
    \/ \E t \in StopCallers : StopSignal(t)

SpecWorkflow == Init /\ [][NextWorkflow]_vars

\* The goroutine that HandleRun started keeps running; commands and writes
\* return.
FairnessWorkflow ==
    /\ WF_vars(executeWorkflowSteps)
    /\ WF_vars(\E shellErr \in BOOLEAN : ExecuteStep(shellErr))
    /\ WF_vars(ExecuteWrite)

FairSpecWorkflow == SpecWorkflow /\ FairnessWorkflow

\* C23: HandleRun has answered 202 before any step runs, the steps run one
\* after the other in list order, and whatever the outcome of a step every
\* step of the list is executed.
C23_WorkflowRuns ==
    /\ [](wflog # <<>> => wfret = "202")
    /\ [](\A i \in 1..Len(wflog) : wflog[i].idx = i /\ i <= Len(wfsteps))
    /\ (wfret = "202" /\ wfjson.valid) ~> (wfpc = "end" /\ Len(wflog) = Len(wfjson.steps))

\* A shell step failed, then a send_input step named an unknown session,
\* and the third step ran and wrote to its session.
C23_Witness ==
    /\ Len(wflog) = 3
    /\ wflog[1].out = "shell_error"
    /\ wflog[2].out = "notfound"
    /\ wflog[3].out = "write_ok"

\* ---- browser terminal: connect, the socket handlers, the timers --------
\* scheduleReconnect(term): a timer of reconnectDelay.current ms; the timer
\* reconnectTimer.current named before stays pending.
scheduleReconnect ==
    /\ reconnectTimer' = reconnectDelay
    /\ strayTimers' = IF reconnectTimer # 0 THEN strayTimers + 1 ELSE strayTimers
    /\ nth' = nth + 1

\* ws.onopen
WsOpen ==
    /\ wsConnecting > 0
    /\ wsConnecting' = wsConnecting - 1
    /\ wsOpen' = wsOpen + 1
    /\ neverOpened' = 0
    /\ reconnectDelay' = RECONNECT_DELAY
    /\ connState' = "connected"
    /\ attempts' = 0
    /\ nth' = 0
    /\ autoAfterMax' = FALSE
    /\ UNCHANGED <<reconnectTimer, strayTimers, restPending, closes, manuals, restDead, nonTermVars>>

\* ws.onclose of a socket that was open (opened) or never opened, with the
\* close code; a socket that never opened closes abnormally.
WsClose(code, opened) ==
    /\ IF opened THEN wsOpen > 0 ELSE wsConnecting > 0 /\ code # 1000
    /\ wsOpen' = IF opened THEN wsOpen - 1 ELSE wsOpen
    /\ wsConnecting' = IF opened THEN wsConnecting ELSE wsConnecting - 1
    /\ IF code = 1000
         THEN /\ connState' = "ended"
              /\ UNCHANGED <<attempts, neverOpened, reconnectTimer, strayTimers, restPending,
                             closes, nth>>
         ELSE /\ closes < MaxCloses
              /\ closes' = closes + 1
              /\ neverOpened' = IF opened THEN neverOpened ELSE neverOpened + 1
              /\ attempts' = attempts + 1
              /\ connState' = IF attempts + 1 >= MAX_RECONNECT_ATTEMPTS THEN "ended" ELSE "reconnecting"
              /\ IF neverOpened' >= 3
                   THEN /\ restPending' = restPending + 1
                        /\ UNCHANGED <<reconnectTimer, strayTimers, nth>>
                   ELSE /\ scheduleReconnect
                        /\ UNCHANGED restPending
    /\ UNCHANGED <<reconnectDelay, manuals, autoAfterMax, restDead, nonTermVars>>

\* checkSessionAlive() resolves: not alive ends the terminal, alive (also
\* when the request failed) schedules the reconnect.
CheckSessionAlive(alive) ==
    /\ restPending > 0
    /\ restPending' = restPending - 1
    /\ IF ~alive
         THEN /\ reconnectTimer' = 0
              /\ connState' = "ended"
              /\ restDead' = TRUE
              /\ UNCHANGED <<strayTimers, nth>>
         ELSE /\ scheduleReconnect
              /\ UNCHANGED <<connState, restDead>>
    /\ UNCHANGED <<attempts, reconnectDelay, neverOpened, wsConnecting, wsOpen, closes, manuals,
                   autoAfterMax, nonTermVars>>

\* A timer callback that doubles the delay without the cap.
TimerFires_noCap(stray) ==
    /\ IF stray THEN strayTimers > 0 ELSE reconnectTimer # 0
    /\ strayTimers' = IF stray THEN strayTimers - 1 ELSE strayTimers
    /\ reconnectTimer' = IF stray THEN reconnectTimer ELSE 0
    /\ wsConnecting' = wsConnecting + 1
    /\ reconnectDelay' = reconnectDelay * 2
    /\ autoAfterMax' = (autoAfterMax \/ attempts >= MAX_RECONNECT_ATTEMPTS)
    /\ UNCHANGED <<connState, attempts, neverOpened, wsOpen, restPending, closes, manuals, nth,
                   restDead, nonTermVars>>

\* The callback of a reconnect timer (the one reconnectTimer.current names,
\* or a stray one): connect(term), then the delay doubles up to the cap.
TimerFires(stray) ==
    /\ IF stray THEN strayTimers > 0 ELSE reconnectTimer # 0
    /\ strayTimers' = IF stray THEN strayTimers - 1 ELSE strayTimers
    /\ reconnectTimer' = IF stray THEN reconnectTimer ELSE 0
    /\ wsConnecting' = wsConnecting + 1
    /\ reconnectDelay' = Min(reconnectDelay * 2, MAX_RECONNECT_DELAY)
    /\ autoAfterMax' = (autoAfterMax \/ attempts >= MAX_RECONNECT_ATTEMPTS)
    /\ UNCHANGED <<connState, attempts, neverOpened, wsOpen, restPending, closes, manuals, nth,
                   restDead, nonTermVars>>

\* A click on "Retry now" / "Reconnect", shown while reconnecting or ended.
manualReconnect ==
    /\ connState \in {"reconnecting", "ended"}
    /\ manuals < MaxManual
    /\ manuals' = manuals + 1
    /\ reconnectTimer' = 0
    /\ reconnectDelay' = RECONNECT_DELAY
    /\ attempts' = 0
    /\ connState' = "connecting"
    /\ wsConnecting' = wsConnecting + 1
    /\ nth' = 0
    /\ autoAfterMax' = FALSE
    /\ UNCHANGED <<neverOpened, wsOpen, strayTimers, restPending, closes, restDead, nonTermVars>>

\* The terminal left to itself: nobody clicks.
NextTerminalAuto ==
    \/ WsOpen
    \/ \E code \in {1000, 1006}, opened \in BOOLEAN : WsClose(code, opened)
    \/ \E alive \in BOOLEAN : CheckSessionAlive(alive)
    \/ TimerFires(FALSE)

SpecTerminalAuto == Init /\ [][NextTerminalAuto]_vars

\* Timers fire and requests to the REST API come back.
FairnessTerminal ==
    /\ WF_vars(TimerFires(FALSE))
    /\ WF_vars(TimerFires(TRUE))
    /\ WF_vars(\E alive \in BOOLEAN : CheckSessionAlive(alive))

FairSpecTerminalAuto == SpecTerminalAuto /\ FairnessTerminal

\* The terminal with a user who may click the reconnect button.
NextTerminal ==
    \/ NextTerminalAuto
    \/ TimerFires(TRUE)
    \/ manualReconnect

SpecTerminal == Init /\ [][NextTerminal]_vars

\* The wait before the n-th successive reconnect attempt, in ms.
BackoffWait(n) == IF n <= 4 THEN <<1000, 2000, 4000, 8000>>[n] ELSE 10000

\* C24 as stated: after an abnormal close the terminal always reconnects;
\* the waits are 1 s, 2 s, 4 s, 8 s and then 10 s, an open resets the wait
\* to 1 s, and a close with code 1000 ends without a reconnect.
C24_AlwaysReconnects ==
    /\ [](reconnectTimer # 0 => reconnectTimer = BackoffWait(nth))
    /\ [][WsOpen => reconnectDelay' = RECONNECT_DELAY]_vars
    /\ [][\A opened \in BOOLEAN :
            WsClose(1000, opened) =>
                /\ connState' = "ended"
                /\ UNCHANGED <<reconnectTimer, strayTimers, restPending>>]_vars
    /\ (reconnectTimer # 0 \/ restPending > 0) ~> wsConnecting > 0

\* C24, amended: the same, except that the terminal does not reconnect when
\* checkSessionAlive has reported the session as not running (asked after
\* three closes in a row of sockets that never opened); it is then ended.
C24_Backoff ==
    /\ [](reconnectTimer # 0 => reconnectTimer = BackoffWait(nth))
    /\ [][WsOpen => reconnectDelay' = RECONNECT_DELAY]_vars
    /\ [][\A opened \in BOOLEAN :
            WsClose(1000, opened) =>
                /\ connState' = "ended"
                /\ UNCHANGED <<reconnectTimer, strayTimers, restPending>>]_vars
    /\ (reconnectTimer # 0 \/ restPending > 0)
          ~> (wsConnecting > 0 \/ (restDead /\ connState = "ended"))

\* The sixth reconnect in a row is pending with the capped wait.
C24_Witness == nth = 6 /\ reconnectTimer = MAX_RECONNECT_DELAY

\* ---- idle monitor: openMonitor and the socket handlers ------------------
\* openMonitor(sessionId), called by the reopen timer: a new socket and a
\* new monitor object for it.
openMonitor(id) ==
    /\ monTimer[id] # 0
    /\ monTimer' = [monTimer EXCEPT ![id] = 0]
    /\ monitors' = [monitors EXCEPT ![id] = "ws"]
    /\ monDelay' = [monDelay EXCEPT ![id] = RECONNECT_MS]
    /\ monEnded' = [monEnded EXCEPT ![id] = FALSE]
    /\ UNCHANGED <<monCloses, idleSessions, nonIdleVars>>

\* ws.onmessage once the monitor has settled: the session is not idle.
MonitorMessage(id) ==
    /\ monitors[id] = "ws"
    /\ id \in idleSessions
    /\ idleSessions' = idleSessions \ {id}
    /\ UNCHANGED <<monitors, monDelay, monEnded, monTimer, monCloses, nonIdleVars>>

\* The idle timer: no message for IDLE_MS.
MonitorIdle(id) ==
    /\ monitors[id] = "ws"
    /\ id \notin idleSessions
    /\ idleSessions' = idleSessions \cup {id}
    /\ UNCHANGED <<monitors, monDelay, monEnded, monTimer, monCloses, nonIdleVars>>

\* ws.onclose with the close code.
MonitorClose(id, code) ==
    /\ monitors[id] = "ws"
    /\ monitors' = [monitors EXCEPT ![id] = "none"]
    /\ IF code = 1000
         THEN /\ monEnded' = [monEnded EXCEPT ![id] = TRUE]
              /\ idleSessions' = idleSessions \cup {id}
              /\ UNCHANGED <<monDelay, monTimer, monCloses>>
         ELSE /\ monCloses[id] < MaxMonitorCloses
              /\ monCloses' = [monCloses EXCEPT ![id] = @ + 1]
              /\ idleSessions' = idleSessions \ {id}
              /\ monTimer' = [monTimer EXCEPT ![id] = monDelay[id]]
              /\ monDelay' = [monDelay EXCEPT ![id] = Min(monDelay[id] * 2, MAX_RECONNECT_MS)]
              /\ UNCHANGED monEnded
    /\ UNCHANGED nonIdleVars

NextIdleMonitor ==
    \/ \E id \in Ids : openMonitor(id)
    \/ \E id \in Ids : MonitorMessage(id)
    \/ \E id \in Ids : MonitorIdle(id)
    \/ \E id \in Ids, code \in {1000, 1006} : MonitorClose(id, code)

SpecIdleMonitor == Init /\ [][NextIdleMonitor]_vars

\* C25: after consecutive abnormal closes of a session's monitor socket
\* the delay before reopening doubles from 3 s up to the cap of 30 s.
C25_MonitorBackoff ==
    \A id \in Ids :
        monTimer[id] # 0 =>
            monTimer[id] = IF monCloses[id] <= 4
                             THEN <<3000, 6000, 12000, 24000>>[monCloses[id]]
                             ELSE 30000

\* C26: no payload is sent on a closed subscriber channel, no channel is
\* closed twice, and a closed channel is not in a subscriber set.
C26_ChannelSafety ==
    /\ ~panicked
    /\ \A c \in Chans : closed[c] <= 1
    /\ \A c \in Chans : closed[c] > 0 => \A s \in S : c \notin subscribers[s]

\* The teardown closed one client's channel after a broadcast reached it,
\* another client had cancelled, and Stop was called.
C26_Witness ==
    /\ rpc[1] = "end"
    /\ \E c \in Chans : closed[c] = 1 /\ recvd[c] # <<>>
    /\ \E c \in Chans : cpc[c] = "cancelled" /\ closed[c] = 0
    /\ \E t \in StopCallers : stret[t] = "nil"

\* C27: when a subscriber channel is closed, every chunk the reader
\* obtained (also one that came with the read error) has been appended to
\* the ring and offered to the subscribers, and a subscriber whose queue
\* never overflowed has received or still finds buffered every payload from
\* its Subscribe up to the last chunk.
C27_FinalOutput ==
    \A c \in Chans :
        closed[c] > 0 =>
            LET s == chanSess[c]
            IN /\ AppendedChunks(s) = Len(emitted[s])
               /\ BroadcastDone(s) = Len(emitted[s])
               /\ replayBuf[s] = LastN(Flat(emitted[s]), Min(replayBufSize, Len(Flat(emitted[s]))))
               /\ overflows[c] = 0 =>
                    Delivered(c) = PayloadsFrom(s, subInfo[c].bcasts, Len(emitted[s]))

\* A channel was closed after its subscriber, who never overflowed, got two
\* payloads, the second being the session's last chunk.
C27_Witness ==
    \E c \in Chans :
        /\ closed[c] = 1
        /\ overflows[c] = 0
        /\ Len(Delivered(c)) = 2
        /\ Delivered(c)[2] = Payload(1, Len(emitted[1]))

C29_ShutdownStopsAll ==
    [][ServerExit =>
         \A s \in S : ~(Get(sessID[s]) = s /\ proc[s] = "running" /\ signals[s] = <<>>)]_vars

\* C30: once attempts has reached MAX_RECONNECT_ATTEMPTS the terminal is in
\* state ended and no reconnect timer connects again before the user clicks
\* the reconnect button.
C30_AttemptsBounded ==
    /\ attempts >= MAX_RECONNECT_ATTEMPTS => connState = "ended"
    /\ ~autoAfterMax

====
